---- MODULE Spec2Model ----
(***************************************************************************)
(* Model of the Rebecca-node control-plane agent (src/rest_service.py):    *)
(* the single-owner session, the engine lifecycle handlers with their      *)
(* readiness poll, the log-streaming websocket loop and the geo-asset      *)
(* update handler.                                                         *)
(*                                                                         *)
(* Time is a clock of whole seconds (time.time()).  Delays shorter than a  *)
(* second (time.sleep(0.1), time.sleep(0.5), the 0.2 s websocket wait) are *)
(* points where the handler yields: any other action, the clock's tick     *)
(* included, may happen before the handler goes on.                        *)
(*                                                                         *)
(* A log line is a string.  A websocket message is the sequence of the     *)
(* non-empty pieces it was concatenated from, so the empty text is << >>.  *)
(***************************************************************************)
EXTENDS Integers, Sequences, FiniteSets, TLC

VARIABLES
    session_id,       \* Service.session_id: the live token, NoSession for None
    connected,        \* Service.connected
    client_ip,        \* Service.client_ip
    issued,           \* number of tokens uuid4() has produced so far
    started,          \* XRayCore.started, the engine's running flag
    logbuf,           \* the engine's shared log-line buffer
    fed,              \* number of lines the engine has written so far
    executable_path,  \* XRayCore.executable_path
    assets_path,      \* XRayCore.assets_path
    core_version,     \* Service.core_version
    now,              \* time.time(), whole seconds
    lc,               \* the start/restart request in flight
    ws,               \* the /logs websocket handler in flight, with the lines it popped
    wsOut,            \* the messages the websocket has sent, with send time
    resp,             \* the response sent by the step taken last, NoResp if it sent none
    req,              \* the token that request showed and the state its handler found
    asset_files,      \* the files present in the assets directory
    compose,          \* the persisted deployment descriptor
    installed         \* the release of the binary in the install directory

sessionVars == <<session_id, connected, client_ip, issued>>

engineVars == <<started, logbuf, fed>>

pathVars == <<executable_path, assets_path, core_version>>

wsVars == <<ws, wsOut>>

updVars == <<asset_files, compose, installed>>

outVars == <<resp, req>>
vars == <<sessionVars, engineVars, pathVars, now, lc, wsVars, outVars, updVars>>

-----------------------------------------------------------------------------
(* Bounds of the model *)

MaxTokens == 2
MaxLines == 2
MaxNoise == 1
MaxTime == 3
MaxFiles == 2
MaxLag == 2

(* Program constants *)

ReadyWindow == 3
MaxInterval == 10
BootTime == 100

NoSession == 0
MalformedToken == -1
NoAddr == "none"
Addrs == {"10.0.0.1"}
Tokens == 1..MaxTokens

NoDetail == ""
EmptyLine == ""
ErrLine == "Failed to start: invalid config"
StartedLine == "Xray 1.8.4 started"
LineSet == {EmptyLine, ErrLine, StartedLine}

XRAY_EXECUTABLE_PATH == "/usr/local/bin/xray"
XRAY_ASSETS_PATH == "/usr/local/share/xray"
Configs == {"valid", "malformed"}

-----------------------------------------------------------------------------
(* The Engine Manager (xray.XRayCore / xray.XRayConfig), as the            *)
(* specification describes the interface this service consumes.  ok says   *)
(* whether the call returns normally; a call that raises leaves the        *)
(* engine as it was.                                                       *)

core_stop(st, ok) == IF ok THEN FALSE ELSE st

core_start(st, ok) == IF ok THEN TRUE ELSE st

core_restart(st, ok) == IF ok THEN TRUE ELSE st

get_version == "1.8.4"

(* No binary has been put in the install directory. *)
NoBinary == "None"

(* The version query runs the binary at the handle's executable path: the *)
(* bundled binary reports get_version, an installed one its own release.  *)
get_version_at(path, bundled_path, inst) ==
    IF path = bundled_path THEN get_version ELSE inst

XRayConfig(config) == config # "malformed"

(* The versions v for which the text 'Xray v started' occurs in a line. *)
Announces(log) == IF log = StartedLine THEN {"1.8.4"} ELSE {}

-----------------------------------------------------------------------------
(* Responses.  connected, started and session_id are the fields of         *)
(* Service.response(); they mean something in a 200 response only.  calls  *)
(* lists the collaborator calls the handler made before it answered.       *)

Snapshot(conn, run, extra_id) ==
    [connected |-> conn, started |-> run, session_id |-> extra_id]

Response(op, extra, made) ==
    [op |-> op, status |-> 200, detail |-> NoDetail,
     connected |-> extra.connected, started |-> extra.started,
     session_id |-> extra.session_id, calls |-> made]

HTTPException(op, code, detail, made) ==
    [op |-> op, status |-> code, detail |-> detail,
     connected |-> FALSE, started |-> FALSE, session_id |-> NoSession,
     calls |-> made]

NoResp == HTTPException("none", 0, NoDetail, << >>)

NoCompose == [exists |-> FALSE, env |-> {}, volumes |-> << >>]

(* A request body without a config or version. *)
NoArg == "None"

(* What a handler finds when it runs. *)
Found ==
    [session_id |-> session_id, connected |-> connected, client_ip |-> client_ip,
     issued |-> issued, started |-> started, logbuf |-> logbuf,
     executable_path |-> executable_path, assets_path |-> assets_path,
     core_version |-> core_version, asset_files |-> asset_files,
     compose |-> compose]

NoReq == [tok |-> NoSession, late |-> FALSE, files |-> << >>, arg |-> NoArg, bad |-> 0,
          was |-> [session_id |-> NoSession, connected |-> FALSE, client_ip |-> NoAddr,
                   issued |-> 0, started |-> FALSE, logbuf |-> << >>,
                   executable_path |-> XRAY_EXECUTABLE_PATH,
                   assets_path |-> XRAY_ASSETS_PATH, core_version |-> get_version,
                   asset_files |-> {}, compose |-> NoCompose]]

(* The step validates the token tok of a request and answers it. *)
Answer(tok, r) ==
    /\ resp' = r
    /\ req' = [tok |-> tok, late |-> FALSE, files |-> << >>, arg |-> NoArg, bad |-> 0,
               was |-> Found]

(* The step validates the token of a request that carries the text arg *)
(* (a config, a version) and answers it.                               *)
AnswerArg(tok, arg, r) ==
    /\ resp' = r
    /\ req' = [tok |-> tok, late |-> FALSE, files |-> << >>, arg |-> arg, bad |-> 0,
               was |-> Found]

(* The step answers a request whose token an earlier step validated. *)
AnswerLate(tok, r) ==
    /\ resp' = r
    /\ req' = [tok |-> tok, late |-> TRUE, files |-> << >>, arg |-> lc.config, bad |-> 0,
               was |-> Found]

(* The step answers a request that carries a files list and no token; *)
(* bad numbers the entry whose download or save fails, 0 for none.    *)
AnswerFiles(files, bad, r) ==
    /\ resp' = r
    /\ req' = [tok |-> NoSession, late |-> FALSE, files |-> files, arg |-> NoArg,
               bad |-> bad, was |-> Found]

(* The step sends no response. *)
Silent ==
    /\ resp' = NoResp
    /\ req' = NoReq

Idle == [pc |-> "idle", kind |-> "none", tok |-> NoSession, config |-> NoArg, since |-> 0,
         end_time |-> 0, last_log |-> EmptyLine, drained |-> << >>,
         calls |-> << >>]

NoInterval == [given |-> FALSE, value |-> 0]

NoStream == [pc |-> "none", tok |-> NoSession, interval |-> NoInterval,
             cache |-> << >>, popped |-> << >>, last_sent_ts |-> 0, opened_at |-> 0,
             lag |-> 0,
             close_code |-> 0]

Init ==
    /\ session_id = NoSession
    /\ connected = FALSE
    /\ client_ip = NoAddr
    /\ issued = 0
    /\ started = FALSE
    /\ logbuf = << >>
    /\ fed = 0
    /\ executable_path = XRAY_EXECUTABLE_PATH
    /\ assets_path = XRAY_ASSETS_PATH
    /\ core_version = get_version
    /\ now = BootTime
    /\ lc = Idle
    /\ ws = NoStream
    /\ wsOut = << >>
    /\ resp = NoResp
    /\ req = NoReq
    /\ asset_files = {}
    /\ compose = NoCompose
    /\ installed = NoBinary

-----------------------------------------------------------------------------
(* Session Manager *)

(* A generator that hands the last token out again. *)
uuid4_reused == IF issued = 0 THEN 1 ELSE issued

(* uuid4(): a token no earlier call returned. *)
uuid4 == issued + 1

match_session_id_any(tok) == TRUE

match_session_id(tok) == tok = session_id

StopCall(stop_ok) == IF stop_ok THEN "stop" ELSE "stop:RuntimeError"

connect_no_stop(ip, stop_ok) ==
    /\ issued < MaxTokens
    /\ session_id' = uuid4
    /\ issued' = issued + 1
    /\ client_ip' = ip
    /\ UNCHANGED started
    /\ connected' = TRUE
    /\ Answer(NoSession, Response("connect", Snapshot(TRUE, started', session_id'), << >>))
    /\ UNCHANGED <<logbuf, fed, pathVars, now, lc, wsVars, updVars>>

connect(ip, stop_ok) ==
    /\ issued < MaxTokens
    /\ session_id' = uuid4
    /\ issued' = issued + 1
    /\ client_ip' = ip
    /\ started' = IF connected /\ started THEN core_stop(started, stop_ok) ELSE started
    /\ connected' = TRUE
    /\ Answer(NoSession,
              Response("connect", Snapshot(TRUE, started', session_id'),
                       IF connected /\ started THEN <<StopCall(stop_ok)>> ELSE << >>))
    /\ UNCHANGED <<logbuf, fed, pathVars, now, lc, wsVars, updVars>>

disconnect_keep_token(stop_ok) ==
    /\ UNCHANGED <<session_id, issued>>
    /\ client_ip' = NoAddr
    /\ connected' = FALSE
    /\ started' = IF started THEN core_stop(started, stop_ok) ELSE started
    /\ Answer(NoSession,
              Response("disconnect", Snapshot(FALSE, started', NoSession),
                       IF started THEN <<StopCall(stop_ok)>> ELSE << >>))
    /\ UNCHANGED <<logbuf, fed, pathVars, now, lc, wsVars, updVars>>

disconnect(stop_ok) ==
    /\ session_id' = NoSession
    /\ client_ip' = NoAddr
    /\ connected' = FALSE
    /\ UNCHANGED issued
    /\ started' = IF started THEN core_stop(started, stop_ok) ELSE started
    /\ Answer(NoSession,
              Response("disconnect", Snapshot(FALSE, started', NoSession),
                       IF started THEN <<StopCall(stop_ok)>> ELSE << >>))
    /\ UNCHANGED <<logbuf, fed, pathVars, now, lc, wsVars, updVars>>

(* raise HTTPException(403) of match_session_id: the handler ends there. *)
SessionMismatch(op, tok) ==
    /\ Answer(tok, HTTPException(op, 403, "Session ID mismatch.", << >>))
    /\ UNCHANGED <<sessionVars, engineVars, pathVars, now, lc, wsVars, updVars>>

ping(tok) ==
    IF ~match_session_id(tok)
      THEN SessionMismatch("ping", tok)
      ELSE /\ Answer(tok, Response("ping", Snapshot(FALSE, FALSE, NoSession), << >>))
           /\ UNCHANGED <<sessionVars, engineVars, pathVars, now, lc, wsVars, updVars>>

-----------------------------------------------------------------------------
(* Core Lifecycle Controller *)

stop_surfacing(tok, stop_ok) ==
    IF ~match_session_id(tok)
      THEN SessionMismatch("stop", tok)
      ELSE /\ started' = core_stop(started, stop_ok)
           /\ Answer(tok, IF stop_ok
                             THEN Response("stop", Snapshot(connected, started', NoSession),
                                           <<StopCall(stop_ok)>>)
                             ELSE HTTPException("stop", 503, "RuntimeError",
                                                <<StopCall(stop_ok)>>))
           /\ UNCHANGED <<sessionVars, logbuf, fed, pathVars, now, lc, wsVars, updVars>>

stop(tok, stop_ok) ==
    IF ~match_session_id(tok)
      THEN SessionMismatch("stop", tok)
      ELSE /\ started' = core_stop(started, stop_ok)
           /\ Answer(tok, Response("stop", Snapshot(connected, started', NoSession),
                                    <<StopCall(stop_ok)>>))
           /\ UNCHANGED <<sessionVars, logbuf, fed, pathVars, now, lc, wsVars, updVars>>

(* A handler that hands the config text on without parsing it. *)
Admit_unparsed(op, tok, config) ==
    IF ~match_session_id(tok)
      THEN SessionMismatch(op, tok)
      ELSE /\ lc.pc = "idle"
           /\ lc' = [Idle EXCEPT !.pc = "launch", !.kind = op, !.tok = tok,
                                 !.config = config]
           /\ Silent
           /\ UNCHANGED <<sessionVars, engineVars, pathVars, now, wsVars, updVars>>

(* The validation and parse that open start and restart. *)
Admit(op, tok, config) ==
    IF ~match_session_id(tok)
      THEN SessionMismatch(op, tok)
      ELSE IF ~XRayConfig(config)
        THEN /\ AnswerArg(tok, config,
                            HTTPException(op, 422, "config: Failed to decode config", << >>))
             /\ UNCHANGED <<sessionVars, engineVars, pathVars, now, lc, wsVars, updVars>>
        ELSE /\ lc.pc = "idle"
             /\ lc' = [Idle EXCEPT !.pc = "launch", !.kind = op, !.tok = tok,
                                   !.config = config]
             /\ Silent
             /\ UNCHANGED <<sessionVars, engineVars, pathVars, now, wsVars, updVars>>

start(tok, config) == Admit("start", tok, config)

restart(tok, config) == Admit("restart", tok, config)

track_last_any(last_log, log) == log

(* if log: last_log = log *)
track_last(last_log, log) == IF log # EmptyLine THEN log ELSE last_log

(* while logs: log = logs.popleft(); ...; if marker in log: break *)
RECURSIVE drain(_, _, _)
drain(logs, last_log, version) ==
    IF logs = << >>
      THEN [rest |-> << >>, last_log |-> last_log, popped |-> << >>]
      ELSE LET log == Head(logs)
               last == track_last(last_log, log)
           IN  IF version \in Announces(log)
                 THEN [rest |-> Tail(logs), last_log |-> last, popped |-> <<log>>]
                 ELSE LET r == drain(Tail(logs), last, version)
                      IN  [rest |-> r.rest, last_log |-> r.last_log,
                           popped |-> <<log>> \o r.popped]

(* self.core.start(config) / self.core.restart(config), then the window opens. *)
Launch(op, ok) ==
    IF ok
      THEN /\ lc' = [lc EXCEPT !.pc = "poll", !.since = now,
                               !.end_time = now + ReadyWindow,
                               !.last_log = EmptyLine, !.drained = << >>,
                               !.calls = Append(@, op)]
           /\ Silent
           /\ UNCHANGED <<sessionVars, logbuf, fed, pathVars, now, wsVars, updVars>>
      ELSE /\ lc' = Idle
           /\ AnswerLate(lc.tok, HTTPException(op, 503, "Exception", Append(lc.calls, "Exception")))
           /\ UNCHANGED <<sessionVars, logbuf, fed, pathVars, now, wsVars, updVars>>

(* One round of the readiness loop: drain, then time.sleep(0.1). *)
Poll(op) ==
    /\ lc.pc = "poll"
    /\ lc.kind = op
    /\ now < lc.end_time
    /\ LET r == drain(logbuf, lc.last_log, core_version)
       IN  /\ logbuf' = r.rest
           /\ lc' = [lc EXCEPT !.last_log = r.last_log, !.drained = @ \o r.popped]
    /\ Silent
    /\ UNCHANGED <<sessionVars, started, fed, pathVars, now, wsVars, updVars>>

(* The loop's exit at the deadline and the check of core.started after it. *)
Finish(op) ==
    /\ lc.pc = "poll"
    /\ lc.kind = op
    /\ now >= lc.end_time
    /\ AnswerLate(lc.tok, IF ~started
                             THEN HTTPException(op, 503, lc.last_log, lc.calls)
                             ELSE Response(op, Snapshot(connected, started, NoSession),
                                           lc.calls))
    /\ lc' = [Idle EXCEPT !.drained = lc.drained]
    /\ UNCHANGED <<sessionVars, engineVars, pathVars, now, wsVars, updVars>>

start_core(ok) ==
    /\ lc.pc = "launch"
    /\ lc.kind = "start"
    /\ started' = core_start(started, ok)
    /\ Launch("start", ok)

start_poll == Poll("start")

start_finish == Finish("start")

(* A restart that issues the stop whether or not the engine runs. *)
restart_stop_always(stop_ok) ==
    /\ lc.pc = "launch"
    /\ lc.kind = "restart"
    /\ started' = core_stop(started, stop_ok)
    /\ lc' = [lc EXCEPT !.pc = "relaunch", !.calls = <<StopCall(stop_ok)>>]
    /\ Silent
    /\ UNCHANGED <<sessionVars, logbuf, fed, pathVars, now, wsVars, updVars>>

(* if self.core.started: try: self.core.stop(); time.sleep(0.5) *)
(* except RuntimeError: pass                                     *)
restart_stop(stop_ok) ==
    /\ lc.pc = "launch"
    /\ lc.kind = "restart"
    /\ started' = IF started THEN core_stop(started, stop_ok) ELSE started
    /\ lc' = [lc EXCEPT !.pc = "relaunch",
                        !.calls = IF started THEN <<StopCall(stop_ok)>> ELSE << >>]
    /\ Silent
    /\ UNCHANGED <<sessionVars, logbuf, fed, pathVars, now, wsVars, updVars>>

restart_core(ok) ==
    /\ lc.pc = "relaunch"
    /\ lc.kind = "restart"
    /\ started' = core_restart(started, ok)
    /\ Launch("restart", ok)

restart_poll == Poll("restart")

restart_finish == Finish("restart")

-----------------------------------------------------------------------------
(* Maintenance Proxy *)

Unreachable == [kind |-> "unreachable", status |-> 0, detail |-> NoDetail]

Upstream ==
    {Unreachable,
     [kind |-> "json", status |-> 200, detail |-> NoDetail],
     [kind |-> "json", status |-> 500, detail |-> "Command failed"]}

(* The maintenance service's address, built from the configured host; an *)
(* empty host leaves it unset.                                           *)
NODE_SERVICE_HOST == "127.0.0.1"

NoBase == "None"

_build_node_service_base ==
    IF NODE_SERVICE_HOST = "" THEN NoBase ELSE "http://127.0.0.1:3100"

_call_node_service(op, up) ==
    IF _build_node_service_base = NoBase
      THEN HTTPException(op, 503,
                         "Node maintenance service is not configured on this node.",
                         << >>)
    ELSE IF up.kind = "unreachable"
      THEN HTTPException(op, 502, "Unable to reach node maintenance service", <<op>>)
      ELSE LET detail == IF up.kind = "json" THEN up.detail
                         ELSE "Node maintenance service returned invalid response."
           IN  IF up.status >= 400
                 THEN HTTPException(op, up.status, detail, <<op>>)
                 ELSE Response(op, Snapshot(FALSE, FALSE, NoSession), <<op>>)

Maintenance(op, tok, up) ==
    IF ~match_session_id(tok)
      THEN SessionMismatch(op, tok)
      ELSE /\ Answer(tok, _call_node_service(op, up))
           /\ UNCHANGED <<sessionVars, engineVars, pathVars, now, lc, wsVars, updVars>>

restart_node_service(tok, up) == Maintenance("POST /restart", tok, up)

update_node_service(tok, up) == Maintenance("POST /update", tok, up)

-----------------------------------------------------------------------------
(* Log Streaming Service *)

(* websocket.query_params.get('interval'): None when the parameter is absent. *)
None == "None"

IntervalParams == {None, "abc", "-1", "0", "1", "5", "10", "11"}

(* if interval: -- a query string is true unless it is None or empty. *)
Truthy(text) == text # None /\ text # ""

(* float(text) raises ValueError outside DOMAIN FloatOf. *)
FloatOf == [text \in {"-1", "0", "1", "5", "10", "11"} |->
              CASE text = "-1" -> 0 - 1
                [] text = "0"  -> 0
                [] text = "1"  -> 1
                [] text = "5"  -> 5
                [] text = "10" -> 10
                [] text = "11" -> 11]

(* websocket.close(code, reason) before accept. *)
WSClose(code, reason) == HTTPException("logs", code, reason, << >>)

(* websocket.accept(): the upgrade is answered 101. *)
WSAccept == HTTPException("logs", 101, NoDetail, << >>)

logs(sid, interval) ==
    /\ ws.pc \in {"none", "closed"}
    /\ IF sid = MalformedToken
         THEN /\ Answer(sid, WSClose(4400, "session_id should be a valid UUID."))
              /\ UNCHANGED wsVars
         ELSE IF sid # session_id
         THEN /\ Answer(sid, WSClose(4403, "Session ID mismatch."))
              /\ UNCHANGED wsVars
         ELSE IF Truthy(interval) /\ interval \notin DOMAIN FloatOf
         THEN /\ Answer(sid, WSClose(4400, "Invalid interval value"))
              /\ UNCHANGED wsVars
         ELSE IF Truthy(interval) /\ FloatOf[interval] > MaxInterval
         THEN /\ Answer(sid, WSClose(4400, "Interval must be more than 0 and at most 10 seconds"))
              /\ UNCHANGED wsVars
         ELSE /\ Answer(sid, WSAccept)
              /\ ws' = [NoStream EXCEPT
                          !.pc = "loop", !.tok = sid, !.opened_at = now,
                          !.interval = IF Truthy(interval)
                                         THEN [given |-> TRUE, value |-> FloatOf[interval]]
                                         ELSE NoInterval]
              /\ wsOut' = << >>
    /\ UNCHANGED <<sessionVars, engineVars, pathVars, now, lc, updVars>>

(* `if interval` inside the loop: None and 0.0 are both false. *)
Batching(interval) == interval.given /\ interval.value # 0

loop_condition_once(tok) == TRUE

(* while session_id == self.session_id *)
loop_condition(tok) == tok = session_id

(* The stream is back at the head of the loop; lag counts the iterations *)
(* completed since the session token stopped being the stream's.         *)
Resume(w) ==
    [w EXCEPT !.pc = "loop",
              !.lag = IF w.tok # session_id /\ @ < MaxLag THEN @ + 1 ELSE @]

(* The loop condition, then the flush of a due batch. *)
ws_check(alive) ==
    /\ ws.pc = "loop"
    /\ IF ~loop_condition(ws.tok)
         THEN /\ ws' = [ws EXCEPT !.pc = "closing"]
              /\ UNCHANGED wsOut
         ELSE IF Batching(ws.interval)
                 /\ now - ws.last_sent_ts >= ws.interval.value
                 /\ ws.cache # << >>
         THEN IF alive
                THEN /\ wsOut' = Append(wsOut, [text |-> ws.cache, at |-> now])
                     /\ ws' = [ws EXCEPT !.pc = "body", !.cache = << >>,
                                         !.last_sent_ts = now]
                ELSE /\ ws' = [ws EXCEPT !.pc = "closing"]
                     /\ UNCHANGED wsOut
         ELSE /\ ws' = [ws EXCEPT !.pc = "body"]
              /\ UNCHANGED wsOut
    /\ Silent
    /\ UNCHANGED <<sessionVars, engineVars, pathVars, now, lc, updVars>>

(* A batch that takes a new line at its front. *)
cache_front(cache, log) == <<log, "\n">> \o cache

(* cache += f'{log}\n' *)
cache_add(cache, log) == cache \o <<log, "\n">>

(* The rest of an iteration: begin the idle wait, or pop one line and *)
(* cache or send it.                                                  *)
ws_body(alive) ==
    /\ ws.pc = "body"
    /\ IF logbuf = << >>
         THEN /\ ws' = [ws EXCEPT !.pc = "recv"]
              /\ UNCHANGED <<logbuf, wsOut>>
         ELSE LET log == Head(logbuf)
                  w == [ws EXCEPT !.popped = Append(@, log)]
              IN  /\ logbuf' = Tail(logbuf)
                  /\ IF Batching(ws.interval)
                       THEN /\ ws' = Resume([w EXCEPT !.cache = cache_add(@, log)])
                            /\ UNCHANGED wsOut
                       ELSE IF alive
                         THEN /\ wsOut' = Append(wsOut, [text |-> <<log>>, at |-> now])
                              /\ ws' = Resume(w)
                         ELSE /\ ws' = [w EXCEPT !.pc = "closing"]
                              /\ UNCHANGED wsOut
    /\ Silent
    /\ UNCHANGED <<sessionVars, started, fed, pathVars, now, lc, updVars>>

(* asyncio.wait_for(websocket.receive(), timeout=0.2) returns or raises. *)
ws_recv(event) ==
    /\ ws.pc = "recv"
    /\ ws' = IF event = "disconnect" THEN [ws EXCEPT !.pc = "closing"] ELSE Resume(ws)
    /\ Silent
    /\ UNCHANGED <<sessionVars, engineVars, pathVars, now, lc, wsOut, updVars>>

(* await websocket.close() after the loop. *)
ws_close ==
    /\ ws.pc = "closing"
    /\ ws' = [ws EXCEPT !.pc = "closed", !.close_code = 1000]
    /\ Silent
    /\ UNCHANGED <<sessionVars, engineVars, pathVars, now, lc, wsOut, updVars>>

-----------------------------------------------------------------------------
(* Asset update *)

(* item.get(...) of a key the entry lacks. *)
NoField == "None"

Names == {NoField, " ", "geoip.dat", "geosite.dat"}

Urls == {NoField, "https://example.com/geo.dat"}

Entries == [name : Names, url : Urls]

RECURSIVE ListsUpTo(_)
ListsUpTo(n) ==
    IF n = 0 THEN {<< >>}
    ELSE LET shorter == ListsUpTo(n - 1)
         IN  shorter \cup {Append(l, e) : l \in {x \in shorter : Len(x) = n - 1}, e \in Entries}

FileLists == ListsUpTo(MaxFiles)

(* (item.get(key) or "").strip() *)
Strip(raw) == IF raw \in {NoField, "", " "} THEN "" ELSE raw

RECURSIVE _download_files_to_rest(_, _, _, _)
(* A loop that notes a failed entry and goes on with the rest of the list. *)
_download_files_to_rest(files, i, bad, kind) ==
    IF i > Len(files)
      THEN [status |-> 200, detail |-> NoDetail, fetched |-> << >>, saved |-> << >>]
      ELSE LET name == Strip(files[i].name)
               url == Strip(files[i].url)
               r == _download_files_to_rest(files, i + 1, bad, kind)
           IN  IF name = "" \/ url = ""
                 THEN [status |-> 422,
                       detail |-> "Each file must include non-empty 'name' and 'url'.",
                       fetched |-> << >>, saved |-> << >>]
               ELSE IF bad = i /\ kind = "download"
                 THEN [status |-> 502, detail |-> "Failed to download",
                       fetched |-> <<name>> \o r.fetched, saved |-> r.saved]
               ELSE IF bad = i /\ kind = "save"
                 THEN [status |-> 500, detail |-> "Failed to save",
                       fetched |-> <<name>> \o r.fetched, saved |-> r.saved]
               ELSE [r EXCEPT !.fetched = <<name>> \o @, !.saved = <<name>> \o @]

RECURSIVE _download_files_to(_, _, _, _)
(* for item in files: check the entry, requests.get(url), write the file. *)
(* The entry numbered bad fails to download or to save.                  *)
_download_files_to(files, i, bad, kind) ==
    IF i > Len(files)
      THEN [status |-> 200, detail |-> NoDetail, fetched |-> << >>, saved |-> << >>]
      ELSE LET name == Strip(files[i].name)
               url == Strip(files[i].url)
           IN  IF name = "" \/ url = ""
                 THEN [status |-> 422,
                       detail |-> "Each file must include non-empty 'name' and 'url'.",
                       fetched |-> << >>, saved |-> << >>]
               ELSE IF bad = i /\ kind = "download"
                 THEN [status |-> 502, detail |-> "Failed to download",
                       fetched |-> <<name>>, saved |-> << >>]
               ELSE IF bad = i /\ kind = "save"
                 THEN [status |-> 500, detail |-> "Failed to save",
                       fetched |-> <<name>>, saved |-> << >>]
               ELSE LET r == _download_files_to(files, i + 1, bad, kind)
                    IN  [r EXCEPT !.fetched = <<name>> \o @, !.saved = <<name>> \o @]

Range(seq) == {seq[k] : k \in 1..Len(seq)}

(* subprocess.run(...): the module never imports subprocess, so the name *)
(* lookup raises NameError, which the handler's except Exception turns   *)
(* into a 500.                                                           *)
subprocess_run == "NameError"

asset_volume == "/var/lib/reb/assets:/usr/local/share/xray"

(* The descriptor as _update_docker_compose writes it back. *)
Rewritten(doc, key, value) ==
    [exists |-> TRUE,
     env |-> {kv \in doc.env : kv[1] # key} \cup {<<key, value>>},
     volumes |-> IF asset_volume \in Range(doc.volumes)
                   THEN doc.volumes ELSE Append(doc.volumes, asset_volume)]

(* io: "ok", or the step of reading, parsing and writing that fails. *)
_update_docker_compose(doc, key, value, io) ==
    IF io # "ok"
      THEN [doc |-> doc, status |-> 500, made |-> << >>]
      ELSE [doc |-> Rewritten(doc, key, value),
            status |-> IF subprocess_run = "ok" THEN 200 ELSE 500,
            made |-> <<"docker-compose up -d">>]

update_geo(files, bad, kind, io) ==
    IF files = << >>
      THEN /\ AnswerFiles(files, bad, HTTPException("update_geo", 422,
                                   "'files' must be a non-empty list of {name,url}.", << >>))
           /\ UNCHANGED <<sessionVars, engineVars, pathVars, now, lc, wsVars, updVars>>
      ELSE LET r == _download_files_to(files, 1, bad, kind)
           IN  /\ asset_files' = asset_files \cup Range(r.saved)
               /\ IF r.status # 200
                    THEN /\ AnswerFiles(files, bad, HTTPException("update_geo", r.status, r.detail,
                                                             r.fetched))
                         /\ UNCHANGED <<pathVars, compose>>
                    ELSE /\ assets_path' = "/usr/local/share/xray"
                         /\ UNCHANGED <<executable_path, core_version>>
                         /\ IF compose.exists
                              THEN LET c == _update_docker_compose(compose, "XRAY_ASSETS_PATH",
                                                "/usr/local/share/xray", io)
                                   IN  /\ compose' = c.doc
                                       /\ AnswerFiles(files, bad,
                                            IF c.status = 200
                                              THEN Response("update_geo",
                                                     Snapshot(FALSE, FALSE, NoSession),
                                                     r.fetched \o c.made)
                                              ELSE HTTPException("update_geo", 500,
                                                     "Failed to update docker-compose.yml",
                                                     r.fetched \o c.made))
                              ELSE /\ UNCHANGED compose
                                   /\ AnswerFiles(files, bad, Response("update_geo",
                                          Snapshot(FALSE, FALSE, NoSession), r.fetched))
               /\ UNCHANGED <<sessionVars, engineVars, now, lc, wsVars, installed>>

(* The releases a caller may ask for; the empty text is a missing version. *)
Versions == {"", "1.8.5", "25.1.1"}

(* base_dir / "xray" *)
final_exe == "/var/lib/reb/xray-core/xray"

(* A handler that keeps the version it reported before. *)
core_version_kept(path, inst) == core_version

(* self.core_version = self.core.get_version(), after the path is set *)
core_version_refreshed(path, inst) == get_version_at(path, XRAY_EXECUTABLE_PATH, inst)

(* platform_ok: the host is one of the known platforms; dl_ok: the archive *)
(* downloads; zip_ok: the archive holds the binary; io as for the          *)
(* descriptor's rewrite.                                                   *)
update_core(version, platform_ok, dl_ok, stop_ok, zip_ok, io) ==
    IF version = ""
      THEN /\ AnswerArg(NoSession, version,
                        HTTPException("update_core", 422, "version is required", << >>))
           /\ UNCHANGED <<sessionVars, engineVars, pathVars, now, lc, wsVars, updVars>>
    ELSE IF ~platform_ok
      THEN /\ AnswerArg(NoSession, version,
                        HTTPException("update_core", 400, "Unsupported platform for node",
                                      << >>))
           /\ UNCHANGED <<sessionVars, engineVars, pathVars, now, lc, wsVars, updVars>>
    ELSE IF ~dl_ok
      THEN /\ AnswerArg(NoSession, version,
                        HTTPException("update_core", 502, "Download failed", <<"download">>))
           /\ UNCHANGED <<sessionVars, engineVars, pathVars, now, lc, wsVars, updVars>>
    ELSE LET stopped == IF started THEN <<"download", StopCall(stop_ok)>> ELSE <<"download">>
         IN  /\ started' = IF started THEN core_stop(started, stop_ok) ELSE started
             /\ UNCHANGED <<sessionVars, logbuf, fed, assets_path, now, lc, wsVars, asset_files>>
             /\ IF ~zip_ok
                  THEN /\ AnswerArg(NoSession, version,
                                    HTTPException("update_core", 500,
                                                  "xray binary not found in archive", stopped))
                       /\ UNCHANGED <<executable_path, core_version, compose, installed>>
                  ELSE /\ installed' = version
                       /\ executable_path' = final_exe
                       /\ core_version' = core_version_refreshed(executable_path', installed')
                       /\ IF compose.exists
                            THEN LET c == _update_docker_compose(compose,
                                              "XRAY_EXECUTABLE_PATH",
                                              "/var/lib/rebecca-node/xray-core/xray", io)
                                 IN  /\ compose' = c.doc
                                     /\ AnswerArg(NoSession, version,
                                          IF c.status = 200
                                            THEN [Response("update_core",
                                                     Snapshot(FALSE, FALSE, NoSession),
                                                     stopped \o c.made)
                                                   EXCEPT !.detail = core_version']
                                            ELSE HTTPException("update_core", 500,
                                                   "Failed to update docker-compose.yml",
                                                   stopped \o c.made))
                            ELSE /\ UNCHANGED compose
                                 /\ AnswerArg(NoSession, version,
                                        [Response("update_core",
                                                  Snapshot(FALSE, FALSE, NoSession), stopped)
                                           EXCEPT !.detail = core_version'])

(* The operator puts a deployment descriptor in place. *)
ComposeInstalled ==
    /\ ~compose.exists
    /\ compose' = [NoCompose EXCEPT !.exists = TRUE]
    /\ Silent
    /\ UNCHANGED <<sessionVars, engineVars, pathVars, now, lc, wsVars, asset_files, installed>>

(* The operator clears the asset directory. *)
AssetsCleared ==
    /\ asset_files # {}
    /\ asset_files' = {}
    /\ Silent
    /\ UNCHANGED <<sessionVars, engineVars, pathVars, now, lc, wsVars, compose, installed>>

-----------------------------------------------------------------------------
(* The environment: the engine process and the clock *)

EngineEmit(lines, limit) ==
    \E line \in lines :
        /\ fed < limit
        /\ logbuf' = Append(logbuf, line)
        /\ fed' = fed + 1
        /\ Silent
        /\ UNCHANGED <<sessionVars, started, pathVars, now, lc, wsVars, updVars>>

EngineExit ==
    /\ started
    /\ started' = FALSE
    /\ Silent
    /\ UNCHANGED <<sessionVars, logbuf, fed, pathVars, now, lc, wsVars, updVars>>

(* The clock is followed while a readiness window or a log stream reads it. *)
Tick ==
    /\ \/ lc.pc = "poll" /\ now < lc.end_time
       \/ ws.pc \in {"loop", "body", "recv"}
    /\ now < BootTime + MaxTime
    /\ now' = now + 1
    /\ Silent
    /\ UNCHANGED <<sessionVars, engineVars, pathVars, lc, wsVars, updVars>>

-----------------------------------------------------------------------------
(* The session and lifecycle handlers, one start or restart in flight at a time *)

(* The outcome of a collaborator call is drawn when the call is made. *)
Outcomes(called) == IF called THEN BOOLEAN ELSE {TRUE}

Connect == \E ip \in Addrs, stop_ok \in Outcomes(connected /\ started) : connect(ip, stop_ok)

Disconnect == \E stop_ok \in Outcomes(started) : disconnect(stop_ok)

Ping == \E tok \in Tokens : ping(tok)

Stop == \E tok \in Tokens : \E stop_ok \in Outcomes(tok = session_id) : stop(tok, stop_ok)

Start == \E tok \in Tokens, config \in Configs : start(tok, config)

StartCore == \E ok \in BOOLEAN : start_core(ok)

Restart == \E tok \in Tokens, config \in Configs : restart(tok, config)

RestartStop == \E stop_ok \in Outcomes(started) : restart_stop(stop_ok)

RestartCore == \E ok \in BOOLEAN : restart_core(ok)

Replies(called) == IF called THEN Upstream ELSE {Unreachable}

MaintenanceRestart ==
    \E tok \in Tokens : \E up \in Replies(tok = session_id) : restart_node_service(tok, up)

MaintenanceUpdate ==
    \E tok \in Tokens : \E up \in Replies(tok = session_id) : update_node_service(tok, up)

(* A log-stream request that shows a token other than the live one; the *)
(* streams that are admitted are followed in SpecLogs.                   *)
LogsStale ==
    \E sid \in Tokens \cup {MalformedToken}, interval \in {None} :
        /\ sid # session_id
        /\ logs(sid, interval)

Next ==
    \/ Connect
    \/ Disconnect
    \/ Ping
    \/ Stop
    \/ Start
    \/ StartCore
    \/ start_poll
    \/ start_finish
    \/ Restart
    \/ RestartStop
    \/ RestartCore
    \/ restart_poll
    \/ restart_finish
    \/ MaintenanceRestart
    \/ MaintenanceUpdate
    \/ LogsStale
    \/ EngineEmit({ErrLine}, MaxNoise)
    \/ EngineExit
    \/ Tick

Spec == Init /\ [][Next]_vars

-----------------------------------------------------------------------------
(* One controller starting the engine while the engine writes its log *)

NextStart ==
    \/ Connect
    \/ Disconnect
    \/ Start
    \/ StartCore
    \/ start_poll
    \/ start_finish
    \/ EngineEmit(LineSet, MaxLines)
    \/ EngineExit
    \/ Tick

SpecStart == Init /\ [][NextStart]_vars

-----------------------------------------------------------------------------
(* One log stream at a time: every interval a client may ask for *)

Logs == \E sid \in Tokens \cup {MalformedToken}, interval \in IntervalParams : logs(sid, interval)

WsCheck == \E alive \in BOOLEAN : ws_check(alive)

WsBody == \E alive \in BOOLEAN : ws_body(alive)

WsRecv == \E event \in {"timeout", "message", "disconnect"} : ws_recv(event)

NextLogs ==
    \/ Connect
    \/ Logs
    \/ WsCheck
    \/ WsBody
    \/ WsRecv
    \/ ws_close
    \/ EngineEmit({ErrLine, StartedLine}, MaxLines)
    \/ Tick

SpecLogs == Init /\ [][NextLogs]_vars

-----------------------------------------------------------------------------
(* A log stream and the connects and disconnects that end its session *)

LogsLive == \E sid \in Tokens, interval \in {None, "1"} : logs(sid, interval)

NextSupersede ==
    \/ Connect
    \/ Disconnect
    \/ LogsLive
    \/ WsCheck
    \/ WsBody
    \/ WsRecv
    \/ ws_close
    \/ EngineEmit({ErrLine}, MaxNoise)
    \/ Tick

SpecSupersede == Init /\ [][NextSupersede]_vars

(* The event loop runs the stream's coroutine whenever it can go on, and *)
(* the idle wait returns after 0.2 s at the latest.                      *)
FairSupersede ==
    /\ SpecSupersede
    /\ WF_vars(WsCheck)
    /\ WF_vars(WsBody)
    /\ WF_vars(WsRecv)
    /\ WF_vars(ws_close)

-----------------------------------------------------------------------------
(* One controller restarting the engine, twice in a row *)

(* The clock, followed through the readiness windows of two restarts. *)
TickRestart ==
    /\ lc.pc = "poll"
    /\ now < lc.end_time
    /\ now < BootTime + 2 * ReadyWindow
    /\ now' = now + 1
    /\ Silent
    /\ UNCHANGED <<sessionVars, engineVars, pathVars, lc, wsVars, updVars>>

NextRestart ==
    \/ Connect
    \/ Restart
    \/ RestartStop
    \/ RestartCore
    \/ restart_poll
    \/ restart_finish
    \/ EngineEmit({EmptyLine, ErrLine}, MaxLines)
    \/ EngineExit
    \/ TickRestart

SpecRestart == Init /\ [][NextRestart]_vars

-----------------------------------------------------------------------------
(* One log stream, batching or not, fed lines that differ: one line more *)
(* than the first flush takes, so that a batch can hold two              *)

(* The controller's first connect; its session is not taken over. *)
ConnectFirst ==
    /\ issued = 0
    /\ Connect

NextOrder ==
    \/ ConnectFirst
    \/ LogsLive
    \/ WsCheck
    \/ WsBody
    \/ WsRecv
    \/ ws_close
    \/ EngineEmit({ErrLine, StartedLine}, MaxLines + 1)
    \/ Tick

SpecOrder == Init /\ [][NextOrder]_vars

-----------------------------------------------------------------------------
(* Session changes racing starts and restarts in flight, with an Engine *)
(* Manager whose stop never raises                                      *)

ConnectClean == \E ip \in Addrs : connect(ip, TRUE)

DisconnectClean == disconnect(TRUE)

StopClean == \E tok \in Tokens : stop(tok, TRUE)

RestartStopClean == restart_stop(TRUE)

NextRace ==
    \/ ConnectClean
    \/ DisconnectClean
    \/ StopClean
    \/ Start
    \/ StartCore
    \/ start_poll
    \/ start_finish
    \/ Restart
    \/ RestartStopClean
    \/ RestartCore
    \/ restart_poll
    \/ restart_finish
    \/ Tick

SpecRace == Init /\ [][NextRace]_vars

-----------------------------------------------------------------------------
(* A log stream and a start made with the same token *)

LogsPlain == \E sid \in Tokens : logs(sid, None)

NextConsumers ==
    \/ Connect
    \/ Start
    \/ StartCore
    \/ start_poll
    \/ start_finish
    \/ LogsPlain
    \/ WsCheck
    \/ WsBody
    \/ WsRecv
    \/ ws_close
    \/ EngineEmit({ErrLine}, MaxNoise)
    \/ Tick

SpecConsumers == Init /\ [][NextConsumers]_vars

-----------------------------------------------------------------------------
(* Asset updates against an asset directory and a deployment descriptor *)

(* Which entry fails, if any, how it fails, and how the descriptor's *)
(* rewrite goes when there is a descriptor.                         *)
UpdateGeo ==
    \E files \in FileLists :
        \E bad \in 0..Len(files) :
            \E kind \in IF bad = 0 THEN {"download"} ELSE {"download", "save"},
               io \in IF compose.exists /\ bad = 0 THEN {"ok", "read", "write"} ELSE {"ok"} :
                update_geo(files, bad, kind, io)

NextUpdate ==
    \/ UpdateGeo
    \/ ComposeInstalled
    \/ AssetsCleared

SpecUpdate == Init /\ [][NextUpdate]_vars

-----------------------------------------------------------------------------
(* Asset updates whose downloads and saves may fail *)

GeoEntries ==
    {[name |-> "geoip.dat", url |-> "https://example.com/geo.dat"],
     [name |-> "geosite.dat", url |-> "https://example.com/geo.dat"],
     [name |-> "geosite.dat", url |-> NoField]}

RECURSIVE GeoListsUpTo(_)
GeoListsUpTo(n) ==
    IF n = 0 THEN {<< >>}
    ELSE LET shorter == GeoListsUpTo(n - 1)
         IN  shorter \cup {Append(l, e) : l \in {x \in shorter : Len(x) = n - 1},
                                          e \in GeoEntries}

UpdateGeoFailing ==
    \E files \in GeoListsUpTo(MaxFiles) :
        \E bad \in 0..Len(files) :
            \E kind \in IF bad = 0 THEN {"download"} ELSE {"download", "save"},
               io \in IF compose.exists /\ bad = 0 THEN {"ok", "read", "write"} ELSE {"ok"} :
                update_geo(files, bad, kind, io)

NextGeo ==
    \/ UpdateGeoFailing
    \/ ComposeInstalled
    \/ AssetsCleared

SpecGeo == Init /\ [][NextGeo]_vars

-----------------------------------------------------------------------------
(* Binary updates, with the engine stopped or running and with or without *)
(* a deployment descriptor                                                 *)

UpdateCore ==
    \E version \in Versions, platform_ok \in BOOLEAN, dl_ok \in BOOLEAN :
        \E stop_ok \in Outcomes(version # "" /\ platform_ok /\ dl_ok /\ started),
           zip_ok \in Outcomes(version # "" /\ platform_ok /\ dl_ok) :
            \E io \in IF version # "" /\ platform_ok /\ dl_ok /\ zip_ok /\ compose.exists
                         THEN {"ok", "read", "write"} ELSE {"ok"} :
                update_core(version, platform_ok, dl_ok, stop_ok, zip_ok, io)

NextCore ==
    \/ UpdateCore
    \/ ComposeInstalled
    \/ Connect
    \/ Start
    \/ StartCore
    \/ start_poll
    \/ start_finish
    \/ EngineExit
    \/ Tick

SpecCore == Init /\ [][NextCore]_vars

-----------------------------------------------------------------------------
(* Properties of the Session Manager and the Core Lifecycle Controller.     *)
(* resp and req describe the step that led to the state, so a predicate on  *)
(* them and on the other variables relates what a handler found to what it  *)
(* left and answered.                                                       *)

(* The calls that validate the token through match_session_id. *)
GuardedOps == {"ping", "start", "stop", "restart", "POST /restart", "POST /update"}

StopRaised == <<"stop:RuntimeError">>

(* C1: at most one token passes validation at any instant; a token that   *)
(* was issued and is no longer the live one (displaced by a later connect *)
(* or cleared by disconnect) never passes validation again: the live      *)
(* token is always the one issued last, and a connect issues a token that *)
(* was never issued before; every privileged call showing another token   *)
(* (ping, start, stop, restart, maintenance restart and update, log       *)
(* stream) fails with SessionMismatch, and the token a connect returned   *)
(* passes validation.                                                     *)
C1_Exclusivity ==
    /\ Cardinality({t \in Tokens : match_session_id(t)}) <= 1
    /\ session_id \in {NoSession, issued}
    /\ \A t \in 1..issued : t # issued => ~match_session_id(t)
    /\ resp.op = "connect" =>
         /\ resp.session_id \notin 1..req.was.issued
         /\ resp.session_id \in Tokens
         /\ match_session_id(resp.session_id)
    /\ (resp.op \in GuardedOps /\ ~req.late /\ req.tok # req.was.session_id)
         => resp.status = 403
    /\ (resp.op = "logs" /\ req.tok \in Tokens /\ req.tok # req.was.session_id)
         => resp.status = 4403
    /\ (resp.op = "ping" /\ req.tok = req.was.session_id) => resp.status = 200

(* Token 1 was displaced by the connect that issued token 2, and a call *)
(* showing token 1 was then refused.                                    *)
C1_DisplacedRefused ==
    /\ issued = 2
    /\ session_id = 2
    /\ req.tok = 1
    /\ resp.status = 403

(* C2: when connect is called while a session exists and the engine is    *)
(* running, the running flag is false when the connect response is built, *)
(* provided the Engine Manager stop did not fail; connect succeeds and    *)
(* issues a new token whether or not that stop failed.                    *)
C2_TakeoverStopsEngine ==
    resp.op = "connect" =>
      /\ resp.status = 200
      /\ resp.session_id = session_id
      /\ session_id \notin {req.was.session_id, NoSession}
      /\ connected
      /\ (req.was.connected /\ req.was.started) =>
           /\ resp.calls \in {<<"stop">>, StopRaised}
           /\ resp.calls # StopRaised => (~started /\ ~resp.started)

(* A connect took the node over from a session whose engine was running *)
(* and stopped the engine.                                              *)
C2_TakenOverStopped ==
    /\ resp.op = "connect"
    /\ req.was.connected
    /\ req.was.started
    /\ resp.calls = <<"stop">>
    /\ resp.session_id = 2
    /\ ~started

(* C8: a ping, start, stop, restart, maintenance restart or maintenance   *)
(* update showing a token other than the live one (any token when no      *)
(* session exists) fails with 403 SessionMismatch, calls neither the      *)
(* Engine Manager nor the maintenance service, pops no log line and       *)
(* leaves session, running flag and engine paths unchanged; ping changes  *)
(* none of them even when it succeeds.                                    *)
C8_MismatchLeavesState ==
    /\ (resp.op \in GuardedOps /\ ~req.late /\ req.tok # req.was.session_id) =>
         /\ resp.status = 403
         /\ resp.detail = "Session ID mismatch."
         /\ resp.calls = << >>
         /\ Found = req.was
    /\ resp.op = "ping" =>
         /\ resp.calls = << >>
         /\ Found = req.was

(* A restart showing a stale token was refused while the engine was *)
(* running with a line in the log buffer.                           *)
C8_RefusedWhileRunning ==
    /\ resp.op = "restart"
    /\ resp.status = 403
    /\ req.tok # session_id
    /\ session_id # NoSession
    /\ started
    /\ logbuf # << >>

(* C9: disconnect always succeeds and clears the session, so that no      *)
(* token passes validation (none does while no connect has followed: the  *)
(* session and the connected flag are set and cleared together); it       *)
(* leaves the engine not running when the Engine Manager stop does not    *)
(* fail; with no session and the engine stopped (as after a first         *)
(* disconnect) it changes nothing.                                        *)
C9_DisconnectClears ==
    /\ (session_id = NoSession) <=> ~connected
    /\ resp.op = "disconnect" =>
         /\ resp.status = 200
         /\ ~resp.connected
         /\ session_id = NoSession
         /\ \A t \in Tokens : ~match_session_id(t)
         /\ resp.calls # StopRaised => (~started /\ ~resp.started)
         /\ (req.was.session_id = NoSession /\ ~req.was.started) => Found = req.was

(* A disconnect ended a session whose engine was running and stopped it. *)
C9_DisconnectedStopped ==
    /\ resp.op = "disconnect"
    /\ req.was.session_id # NoSession
    /\ req.was.started
    /\ resp.calls = <<"stop">>
    /\ session_id = NoSession
    /\ ~started

-----------------------------------------------------------------------------
(* Properties of the readiness window *)

RECURSIVE LastNonEmpty(_)
LastNonEmpty(lines) ==
    IF lines = << >> THEN EmptyLine
    ELSE IF lines[Len(lines)] # EmptyLine THEN lines[Len(lines)]
    ELSE LastNonEmpty(SubSeq(lines, 1, Len(lines) - 1))

NoMarkerIn(lines) ==
    \A i \in 1..Len(lines) : core_version \notin Announces(lines[i])

(* C3: when the readiness window of a start ends with the engine not      *)
(* running and no drained line carrying the started marker, start fails   *)
(* with 503, not before 3 seconds have passed since the engine was        *)
(* launched, and the detail is the most recent non-empty line drained in  *)
(* the window, or the empty string if none was.                           *)
C3_ReadinessTimeout ==
    [][(start_finish /\ ~started /\ NoMarkerIn(lc.drained)) =>
         /\ resp'.op = "start"
         /\ resp'.status = 503
         /\ resp'.detail = LastNonEmpty(lc.drained)
         /\ now >= lc.since + ReadyWindow]_vars

(* A start timed out after draining an error line and then an empty line: *)
(* the detail is the error line.                                          *)
C3_TimedOutWithLastLine ==
    /\ resp.op = "start"
    /\ resp.status = 503
    /\ resp.detail = ErrLine
    /\ lc.pc = "idle"
    /\ lc.drained = <<ErrLine, EmptyLine>>
    /\ now >= BootTime + ReadyWindow

-----------------------------------------------------------------------------
(* Properties of the Log Streaming Service *)

StreamOpen == ws.pc \in {"loop", "body", "recv"}

(* C4: a log-stream request showing the live token is accepted only if the *)
(* interval is absent or lies in (0, 10].                                  *)
C4_IntervalBounds ==
    (resp.op = "logs" /\ resp.status = 101) =>
      \/ ~ws.interval.given
      \/ (0 < ws.interval.value /\ ws.interval.value <= MaxInterval)

(* C5: on a stream opened with a positive batch interval no message is    *)
(* emitted earlier than one interval after the previous one, or after the *)
(* opening of the stream for the first message.                           *)
C5_NoEarlyFlush ==
    (ws.interval.given /\ ws.interval.value > 0) =>
      \A i \in 1..Len(wsOut) :
        wsOut[i].at >= (IF i = 1 THEN ws.opened_at ELSE wsOut[i - 1].at) + ws.interval.value

(* C6: once the live token differs from the token of an open stream, the  *)
(* stream completes at most the iteration it is in (one idle wait or one  *)
(* pop/emit step), then leaves the loop and closes the connection.        *)
C6_SupersessionCloses ==
    /\ [](ws.lag <= 1)
    /\ (StreamOpen /\ ws.tok # session_id) ~> (ws.pc = "closed")

(* A stream was closed after a connect replaced its token while an *)
(* iteration was in flight.                                        *)
C6_ClosedAfterTakeover ==
    /\ ws.pc = "closed"
    /\ ws.close_code = 1000
    /\ ws.lag = 1
    /\ session_id \notin {NoSession, ws.tok}

-----------------------------------------------------------------------------
(* Properties of the asset update *)

InvalidEntry(files) ==
    \E k \in 1..Len(files) : Strip(files[k].name) = "" \/ Strip(files[k].url) = ""

(* C7: when any entry of the files list given to update_geo lacks a      *)
(* non-empty name or url, update_geo fails with 422, makes no download   *)
(* and writes no asset file.                                             *)
C7_InvalidEntryNoDownload ==
    (resp.op = "update_geo" /\ InvalidEntry(req.files)) =>
      /\ resp.status = 422
      /\ resp.calls = << >>
      /\ asset_files = req.was.asset_files

(* The stripped names of the first n entries, in list order. *)
NamesUpTo(files, n) == [k \in 1..n |-> Strip(files[k].name)]

(* C14: update_geo downloads the files one at a time in list order and    *)
(* stops at the first failure: when the download or the save of entry i   *)
(* fails (every entry up to i being well-formed), entries 1..i are the    *)
(* only ones requested, entries 1..i-1 the only ones written, the call    *)
(* fails with 502 (download) or 500 (save), the engine handle's assets    *)
(* path is as before and the deployment descriptor is not rewritten and   *)
(* no redeploy is issued.                                                 *)
C14_StopsAtFirstFailure ==
    (/\ resp.op = "update_geo"
     /\ req.bad \in 1..Len(req.files)
     /\ ~InvalidEntry(SubSeq(req.files, 1, req.bad))) =>
        /\ \/ resp.status = 502 /\ resp.detail = "Failed to download"
           \/ resp.status = 500 /\ resp.detail = "Failed to save"
        /\ resp.calls = NamesUpTo(req.files, req.bad)
        /\ asset_files = req.was.asset_files \cup Range(NamesUpTo(req.files, req.bad - 1))
        /\ assets_path = req.was.assets_path
        /\ compose = req.was.compose

(* The first of two well-formed entries failed to download while a *)
(* deployment descriptor was in place.                             *)
C14_FirstOfTwoFailed ==
    /\ resp.op = "update_geo"
    /\ req.bad = 1
    /\ Len(req.files) = 2
    /\ ~InvalidEntry(req.files)
    /\ req.was.compose.exists
    /\ resp.status = 502
    /\ asset_files = {}

-----------------------------------------------------------------------------
(* Properties of the binary update *)

(* C11: whenever update_core answers success, the engine handle's         *)
(* executable path is the path of the binary just installed, that binary  *)
(* is the release the caller asked for, and the version the service       *)
(* reports (and returns in the answer) is the one the version query gives *)
(* for the binary at that path; this is so whether or not the engine was  *)
(* running before the update.                                             *)
C11_UpdateCoreSuccess ==
    (resp.op = "update_core" /\ resp.status = 200) =>
        /\ executable_path = final_exe
        /\ installed = req.arg
        /\ core_version = get_version_at(executable_path, XRAY_EXECUTABLE_PATH, installed)
        /\ core_version = req.arg
        /\ resp.detail = core_version

(* An update that found the engine running and an older version reported *)
(* has answered success.                                                 *)
C11_UpdatedWhileRunning ==
    /\ resp.op = "update_core"
    /\ resp.status = 200
    /\ req.was.started
    /\ req.was.core_version # core_version
    /\ req.was.executable_path = final_exe

-----------------------------------------------------------------------------
(* Further properties of the Core Lifecycle Controller *)

(* C12: a start or restart that shows the live token and a config text    *)
(* that fails to parse is answered 422 with the error keyed by the field  *)
(* "config"; the handler makes no Engine Manager call and pops no log     *)
(* line, so the running flag and the log buffer are as it found them.     *)
C12_MalformedRejected ==
    (/\ resp.op \in {"start", "restart"}
     /\ (req.late \/ req.tok = req.was.session_id)
     /\ ~XRayConfig(req.arg)) =>
        /\ resp.status = 422
        /\ resp.detail = "config: Failed to decode config"
        /\ resp.calls = << >>
        /\ ~req.late
        /\ started = req.was.started
        /\ logbuf = req.was.logbuf

(* A restart with a malformed config was refused while the engine runs *)
(* and lines wait in the log buffer.                                   *)
C12_RefusedRestartKeepsRunning ==
    /\ resp.op = "restart"
    /\ resp.status = 422
    /\ req.tok = req.was.session_id
    /\ req.arg = "malformed"
    /\ req.was.started
    /\ started
    /\ logbuf # << >>

-----------------------------------------------------------------------------
(* Properties of the Maintenance Proxy *)

(* C13: a maintenance call with the live token makes exactly one outbound *)
(* call, and its answer is either the upstream body as success or a 502:  *)
(* every transport failure and every failure status of the upstream       *)
(* surfaces as 502.                                                       *)
C13_FailureIs502 ==
    (/\ resp.op \in {"POST /restart", "POST /update"}
     /\ req.tok = req.was.session_id) =>
        /\ resp.calls = <<resp.op>>
        /\ resp.status \in {200, 502}

-----------------------------------------------------------------------------
(* Properties of the readiness loop *)

(* C15: the readiness loop of start and restart ends as soon as the       *)
(* engine is reported running or a drained line carries the started       *)
(* marker, so a loop that is still polling when its three-second window   *)
(* has run out has seen neither.                                          *)
C15_PollsToDeadlineOnlyIfNotReady ==
    (lc.pc = "poll" /\ now >= lc.since + ReadyWindow) =>
        (~started /\ NoMarkerIn(lc.drained))

(* C16: the answer of a start or restart that reached the Engine Manager  *)
(* matches the engine: success is answered only with the running flag     *)
(* true at that moment, and 503 only with the running flag false.         *)
C16_OutcomeMatchesEngine ==
    (resp.op \in {"start", "restart"} /\ req.late) =>
        /\ resp.status = 200 => started
        /\ resp.status = 503 => ~started

-----------------------------------------------------------------------------
(* Further properties of the Log Streaming Service *)

(* C17: from the moment the live token differs from the token a log       *)
(* stream was opened with, no step pops a line from the shared log buffer *)
(* and no step sends a message on that stream.                            *)
C17_NoDeliveryAfterSupersession ==
    [][(StreamOpen /\ ws.tok # session_id) =>
          (Len(logbuf') >= Len(logbuf) /\ wsOut' = wsOut)]_vars

(* C18: at most one draining loop is attached to the shared log buffer:   *)
(* a log stream is never open while the readiness poll of a start or      *)
(* restart runs.                                                          *)
C18_SingleConsumer == ~(StreamOpen /\ lc.pc = "poll")

-----------------------------------------------------------------------------
(* Properties of restart *)

StopCalls == {<<"stop">>, <<"stop:RuntimeError">>}

(* C19: a restart admitted with the live token and a valid config calls   *)
(* the Engine Manager's stop exactly when the engine is running, before   *)
(* it calls restart; whether that stop returns or raises, the handler     *)
(* goes on to the restart call without answering.  The window that        *)
(* follows is that of start: a restart whose window ends with the engine  *)
(* not running and no started marker drained answers 503 with the last    *)
(* non-empty line drained, not before 3 seconds after the engine was      *)
(* launched, and the calls it made are the stop, if any, then restart.    *)
C19_RestartProtocol ==
    [][/\ (lc.pc = "launch" /\ lc.kind = "restart" /\ lc' # lc) =>
            /\ lc'.pc = "relaunch"
            /\ resp' = NoResp
            /\ IF started THEN lc'.calls \in StopCalls ELSE lc'.calls = << >>
            /\ lc'.calls = <<"stop">> => ~started'
            /\ lc'.calls # <<"stop">> => started' = started
       /\ (lc.pc = "relaunch" /\ lc'.pc = "poll") =>
            /\ lc'.calls = Append(lc.calls, "restart")
            /\ lc'.end_time = now + ReadyWindow
       /\ (restart_finish /\ ~started /\ NoMarkerIn(lc.drained)) =>
            /\ resp'.op = "restart"
            /\ resp'.status = 503
            /\ resp'.detail = LastNonEmpty(lc.drained)
            /\ now >= lc.since + ReadyWindow
            /\ resp'.calls \in {c \o <<"restart">> : c \in StopCalls \cup {<< >>}}]_vars

(* A restart found the engine running, its stop raised, and it went on:  *)
(* it timed out with the last line the engine wrote as the diagnostic.   *)
C19_RestartedAfterFailedStop ==
    /\ resp.op = "restart"
    /\ resp.status = 503
    /\ resp.calls = <<"stop:RuntimeError", "restart">>
    /\ resp.detail = ErrLine
    /\ now = BootTime + 2 * ReadyWindow

-----------------------------------------------------------------------------
(* Properties of the deployment descriptor's rewrite *)

(* C20: when a deployment descriptor exists and its read, parse and write *)
(* succeed, so that the handler reaches the orchestrator's apply command, *)
(* update_geo and update_core leave the descriptor rewritten (the         *)
(* environment key set, the bind mount present once) and answer success.  *)
C20_RewriteThenSuccess ==
    (/\ resp.op \in {"update_geo", "update_core"}
     /\ req.was.compose.exists
     /\ "docker-compose up -d" \in Range(resp.calls)) =>
        /\ resp.status = 200
        /\ Cardinality({k \in 1..Len(compose.volumes) : compose.volumes[k] = asset_volume}) = 1

-----------------------------------------------------------------------------
(* Properties of the stream's delivery *)

(* The pieces of all the messages sent, in the order sent. *)
RECURSIVE Emitted(_)
Emitted(out) == IF out = << >> THEN << >> ELSE Head(out).text \o Emitted(Tail(out))

(* Each line followed by a line terminator. *)
RECURSIVE Terminated(_)
Terminated(lines) ==
    IF lines = << >> THEN << >> ELSE <<Head(lines), "\n">> \o Terminated(Tail(lines))

(* What a stream that popped lines has to deliver. *)
Due(w) == IF Batching(w.interval) THEN Terminated(w.popped) ELSE w.popped

IsPrefix(a, b) == Len(a) <= Len(b) /\ SubSeq(b, 1, Len(a)) = a

(* C21, as stated: everything the stream has emitted, put together, is    *)
(* always the lines popped so far in buffer order (each followed by a     *)
(* line terminator when batching).                                        *)
C21_EmittedIsPopped == Emitted(wsOut) = Due(ws)

(* C21, amended: what the stream has emitted is always a prefix of the    *)
(* lines it popped, in buffer order and none twice (each followed by a    *)
(* line terminator when batching); while the stream is open, the emitted  *)
(* text followed by the pending batch is exactly the lines popped so far; *)
(* no emitted message is empty, a message of a stream that does not batch *)
(* is one line; and no step pops more than one line.                      *)
C21_EmittedThenPendingIsPopped ==
    /\ [](/\ IsPrefix(Emitted(wsOut), Due(ws))
          /\ StreamOpen => Emitted(wsOut) \o ws.cache = Due(ws)
          /\ \A k \in 1..Len(wsOut) : wsOut[k].text # << >>
          /\ ~Batching(ws.interval) => \A k \in 1..Len(wsOut) : Len(wsOut[k].text) = 1)
    /\ [][Len(ws'.popped) <= Len(ws.popped) + 1]_vars

(* A batching stream has sent one line and holds the next in its batch. *)
C21_OneSentOnePending ==
    /\ StreamOpen
    /\ Batching(ws.interval)
    /\ ws.popped = <<ErrLine, StartedLine>>
    /\ Len(wsOut) = 1
    /\ wsOut[1].text = <<ErrLine, "\n">>
    /\ ws.cache = <<StartedLine, "\n">>

-----------------------------------------------------------------------------
(* Properties of the engine under session changes *)

(* C22: with Engine Manager stops that do not fail, the engine runs only  *)
(* under a live session whose token started it: whenever the running flag *)
(* is true a session exists; the flag becomes true only by a start or     *)
(* restart that showed the token that is live at that moment; and the     *)
(* session does not change while the engine stays running.                *)
C22_EngineUnderSession ==
    /\ [](started => session_id # NoSession)
    /\ [][(~started /\ started') => lc.tok = session_id]_vars
    /\ [][(started /\ session_id' # session_id) => ~started']_vars

-----------------------------------------------------------------------------
(* Properties of a batching stream's end *)

(* C23: whenever a log stream with a batch interval leaves its loop       *)
(* because the live token is no longer its own, its pending batch is      *)
(* empty: every line it popped has been emitted.                          *)
C23_NothingPendingAtSupersession ==
    [][(/\ ws.pc = "loop"
        /\ ws.tok # session_id
        /\ Batching(ws.interval)
        /\ ws'.pc = "closing") =>
           (ws.cache = << >> /\ Emitted(wsOut) = Due(ws))]_vars

====
